---- MODULE Spec2Model ----
(***************************************************************************)
(* Model of include/dbus_utility.hpp (namespace dbus::utility).            *)
(*                                                                         *)
(* Strings are sequences of character codes (ASCII), so that the regex     *)
(* character class of escapePathForDbus and the lexicographic order used   *)
(* by std::sort are computed on characters, not assumed.                   *)
(*                                                                         *)
(* Every remote call handed to crow::connections::systemBus is a message   *)
(* in flight in the variable systemBus; the transport answers it at any    *)
(* later time with any error code and any payload, and the answer runs the *)
(* continuation that the call captured.                                    *)
(***************************************************************************)
EXTENDS Integers, Sequences, FiniteSets, TLC

VARIABLES
    systemBus,   \* calls outstanding on the bus: [owner, call]
    captured,    \* per invocation: the arguments it was called with (for the resolver,
                 \* as captured by the lambda at line 233)
    endpoints,   \* per invocation: the endpoints copy captured by the lambda at line 195
    sent,        \* per invocation: the remote calls issued so far, in order
    got,         \* per invocation: the replies observed so far, in order
    delivered,   \* per invocation: the caller's callback invocations, in order
    trace,       \* per invocation: the events of the invocation, in order
    path,        \* escapePathForDbus: the std::string& argument (character codes)
    pathIn,      \* escapePathForDbus: the value of the argument at the call
    escaped,     \* escapePathForDbus: TRUE once the function has returned
    index,       \* getNthStringFromPath: the int argument
    result,      \* getNthStringFromPath: the std::string& result argument
    returned     \* getNthStringFromPath: "pending", then "true" or "false"

vars == <<systemBus, captured, endpoints, sent, got, delivered, trace,
          path, pathIn, escaped, index, result, returned>>

resolverVars == <<systemBus, captured, endpoints, sent, got, delivered, trace>>
pathVars == <<path, pathIn, escaped, index, result, returned>>

(***************************************************************************)
(* Bounds of the model.                                                    *)
(***************************************************************************)
MaxReplyLen == 3     \* longest reply payload, one invocation
NumInvocations == 2  \* invocations in flight at once over the shared bus
NumGatewayCalls == 2 \* direct calls of gateway operations in flight at once
MaxStrLen == 3       \* longest string escaped, besides the documented example
MaxPathLen == 5      \* longest path split into segments, besides the documented example

(***************************************************************************)
(* Strings.                                                                *)
(***************************************************************************)
\* "/inv/sys/fan0", "/inv/sys/fan1", "/inv/sys/psu0"
fan0 == <<47, 105, 110, 118, 47, 115, 121, 115, 47, 102, 97, 110, 48>>
fan1 == <<47, 105, 110, 118, 47, 115, 121, 115, 47, 102, 97, 110, 49>>
psu0 == <<47, 105, 110, 118, 47, 115, 121, 115, 47, 112, 115, 117, 48>>
\* "/inv"
invRoot == <<47, 105, 110, 118>>
\* "/inv/sys/chassis/all_fans": the association object
allFans == <<47, 105, 110, 118, 47, 115, 121, 115, 47, 99, 104, 97, 115, 115,
             105, 115, 47, 97, 108, 108, 95, 102, 97, 110, 115>>

Min(a, b) == IF a < b THEN a ELSE b

\* std::string operator< : the first differing character decides (as unsigned
\* char), and a proper prefix is less than the longer string.
StrLess(a, b) ==
    \E k \in 1..(Min(Len(a), Len(b)) + 1) :
        /\ \A j \in 1..(k - 1) : a[j] = b[j]
        /\ \/ k > Len(a) /\ k <= Len(b)
           \/ k <= Len(a) /\ k <= Len(b) /\ a[k] < b[k]

RECURSIVE InsertSorted(_, _)
InsertSorted(x, s) ==
    IF s = <<>> THEN <<x>>
    ELSE IF StrLess(Head(s), x) THEN <<Head(s)>> \o InsertSorted(x, Tail(s))
    ELSE <<x>> \o s

RECURSIVE SortStrings(_)
\* std::sort(begin, end) with operator< on std::string
SortStrings(s) ==
    IF s = <<>> THEN <<>> ELSE InsertSorted(Head(s), SortStrings(Tail(s)))

Range(s) == {s[k] : k \in 1..Len(s)}

RECURSIVE SeqsUpTo(_, _)
SeqsUpTo(S, n) ==
    IF n = 0 THEN {<<>>}
    ELSE LET shorter == SeqsUpTo(S, n - 1)
         IN  shorter \cup {Append(s, x) : s \in {t \in shorter : Len(t) = n - 1}, x \in S}

(***************************************************************************)
(* escapePathForDbus (lines 74-78).                                        *)
(***************************************************************************)
\* The class with '/' left out of it: "[^A-Za-z0-9_]".
InClassNoSlash(c) ==
    \/ c \in 65..90
    \/ c \in 97..122
    \/ c \in 48..57
    \/ c = 95

\* const std::regex reg("[^A-Za-z0-9_/]"): the characters the class excludes
InClass(c) ==
    \/ c \in 65..90
    \/ c \in 97..122
    \/ c \in 48..57
    \/ c = 95
    \/ c = 47

\* The first position at or after r whose character the regex matches, 0 if none.
NextMatch(buf, r) ==
    IF \E m \in r..Len(buf) : ~InClass(buf[m])
    THEN CHOOSE m \in r..Len(buf) :
             /\ ~InClass(buf[m])
             /\ \A j \in r..(m - 1) : InClass(buf[j])
    ELSE 0

RECURSIVE CopyForward(_, _, _, _)
\* std::copy of n characters from position src to position dst of the same
\* buffer, one character at a time, front to back.
CopyForward(buf, src, n, dst) ==
    IF n = 0 THEN buf
    ELSE CopyForward([buf EXCEPT ![dst] = buf[src]], src + 1, n - 1, dst + 1)

RECURSIVE RegexReplace(_, _, _)
\* std::regex_replace(out, first, last, reg, "_") where out and first are both
\* path.begin(): the unmatched prefix before each match is copied to the
\* output position, then the format "_" is written, then the search resumes
\* after the match in the buffer as it then is; the rest is copied at the end.
\* r is the read position, w the output position, both into the one buffer.
RegexReplace(buf, r, w) ==
    LET m == NextMatch(buf, r)
    IN  IF m = 0
        THEN CopyForward(buf, r, Len(buf) - r + 1, w)
        ELSE LET copied == CopyForward(buf, r, m - r, w)
                 out == w + (m - r)
             IN  RegexReplace([copied EXCEPT ![out] = 95], m + 1, out + 1)

escapePathForDbus(p) == RegexReplace(p, 1, 1)

(***************************************************************************)
(* getNthStringFromPath (lines 80-110).                                    *)
(***************************************************************************)
RECURSIVE SplitSlash(_, _)
\* The pieces of p between '/' characters, empty pieces included; cur is the
\* piece being read.
SplitSlash(p, cur) ==
    IF p = <<>> THEN <<cur>>
    ELSE IF Head(p) = 47 THEN <<cur>> \o SplitSlash(Tail(p), <<>>)
    ELSE SplitSlash(Tail(p), Append(cur, Head(p)))

IsNonEmpty(s) == s # <<>>

\* for (auto const& element : p1): the elements std::filesystem::path
\* iterates over: the root directory "/" if the path starts with one, each file
\* name between separators (runs of '/' count once), and an empty element if
\* the path ends in a separator after a file name.
pathElements(p) ==
    IF p = <<>> THEN <<>>
    ELSE LET names == SelectSeq(SplitSlash(p, <<>>), IsNonEmpty)
         IN  (IF p[1] = 47 THEN <<(<<47>>)>> ELSE <<>>)
             \o names
             \o (IF p[Len(p)] = 47 /\ names # <<>> THEN <<(<<>>)>> ELSE <<>>)

\* The test that also takes the root directory for a file name.
hasFilenameOrRoot(e) == e # <<>>

\* element.has_filename(): neither the root directory nor the empty element
hasFilename(e) == e # <<>> /\ e # <<47>>

\* The position of the last '.' of f, 0 if it has none.
LastDot(f) ==
    IF \E k \in 1..Len(f) : f[k] = 46
    THEN CHOOSE k \in 1..Len(f) : f[k] = 46 /\ \A j \in (k + 1)..Len(f) : f[j] # 46
    ELSE 0

\* element.stem(): a name of at most two characters that starts with '.'
\* (".", "..", ".x") and a name whose only '.' is its first character are their
\* own stem; otherwise the stem ends before the last '.'.
stem(f) ==
    IF Len(f) <= 2 /\ f[1] = 46 THEN f
    ELSE IF LastDot(f) <= 1 THEN f
    ELSE SubSeq(f, 1, LastDot(f) - 1)

RECURSIVE walkElements(_, _, _, _)
\* The loop of lines 92-103 over the elements left, count being the counter
\* and res the result argument: gives the counter and the result at loop exit.
walkElements(elements, count, idx, res) ==
    IF elements = <<>> THEN [count |-> count, result |-> res]
    ELSE IF hasFilename(Head(elements))
         THEN IF count + 1 = idx
              THEN [count |-> count + 1, result |-> stem(Head(elements))]
              ELSE walkElements(Tail(elements), count + 1, idx, res)
         ELSE walkElements(Tail(elements), count, idx, res)

\* getNthStringFromPath(path, index, result): gives the return value and the
\* value left in result.
getNthStringFromPath(p, idx, res) ==
    IF idx < 0 THEN [ret |-> FALSE, result |-> res]
    ELSE LET w == walkElements(pathElements(p), -1, idx, res)
         IN  IF w.count < idx
             THEN [ret |-> FALSE, result |-> w.result]
             ELSE [ret |-> TRUE, result |-> w.result]

(***************************************************************************)
(* The gateway's remote calls (lines 147-177).                             *)
(***************************************************************************)
\* "/xyz/openbmc_project/object_mapper"
mapperPath == <<47, 120, 121, 122, 47, 111, 112, 101, 110, 98, 109, 99, 95, 112,
                114, 111, 106, 101, 99, 116, 47, 111, 98, 106, 101, 99, 116, 95,
                109, 97, 112, 112, 101, 114>>

\* checkDbusPathExists: GetObject with std::array<std::string, 0>()
getObjectCall(p) ==
    [api |-> "async_method_call",
     service |-> "xyz.openbmc_project.ObjectMapper",
     object |-> mapperPath,
     interface |-> "xyz.openbmc_project.ObjectMapper",
     member |-> "GetObject",
     args |-> <<p, <<>>>>]

getSubTreeCall(p, depth, interfaces) ==
    [api |-> "async_method_call",
     service |-> "xyz.openbmc_project.ObjectMapper",
     object |-> mapperPath,
     interface |-> "xyz.openbmc_project.ObjectMapper",
     member |-> "GetSubTree",
     args |-> <<p, depth, interfaces>>]

\* The request with depth 0 ("unlimited") replaced by one level.
getSubTreePathsCallOneLevel(p, depth, interfaces) ==
    [api |-> "async_method_call",
     service |-> "xyz.openbmc_project.ObjectMapper",
     object |-> mapperPath,
     interface |-> "xyz.openbmc_project.ObjectMapper",
     member |-> "GetSubTreePaths",
     args |-> <<p, IF depth = 0 THEN 1 ELSE depth, interfaces>>]

getSubTreePathsCall(p, depth, interfaces) ==
    [api |-> "async_method_call",
     service |-> "xyz.openbmc_project.ObjectMapper",
     object |-> mapperPath,
     interface |-> "xyz.openbmc_project.ObjectMapper",
     member |-> "GetSubTreePaths",
     args |-> <<p, depth, interfaces>>]

\* The endpoints read addressed at the mapper's own object path.
getAssociationEndPointsCallAtMapper(p) ==
    [api |-> "getProperty",
     service |-> "xyz.openbmc_project.ObjectMapper",
     object |-> mapperPath,
     interface |-> "xyz.openbmc_project.Association",
     member |-> "endpoints",
     args |-> <<>>]

getAssociationEndPointsCall(p) ==
    [api |-> "getProperty",
     service |-> "xyz.openbmc_project.ObjectMapper",
     object |-> p,
     interface |-> "xyz.openbmc_project.Association",
     member |-> "endpoints",
     args |-> <<>>]

(***************************************************************************)
(* validateAssociatedSubTreePaths and getAssociatedSubTreePaths            *)
(* (lines 182-250).                                                        *)
(***************************************************************************)
\* The test without its emptiness half: if (ec).
endpointsShortCircuitErrorOnly(ec, eps) == ec # 0

\* if (ec || endpoints.empty())
endpointsShortCircuit(ec, eps) == ec # 0 \/ eps = <<>>

\* MapperGetSubTreePathsResponse subtreePaths; callback(ec, subtreePaths);
endpointsShortCircuitResult(ec) == [ec |-> ec, paths |-> <<>>]

\* The test without its error half: if (subtreePaths.empty()).
subtreeShortCircuitEmptyOnly(ec, subtreePaths) == subtreePaths = <<>>

\* if (ec || subtreePaths.empty())
subtreeShortCircuit(ec, subtreePaths) == ec # 0 \/ subtreePaths = <<>>

\* The result vector kept across handler runs (a static instead of a local):
\* it still holds what an earlier invocation delivered.
associatedSubtreePathsLeftOver(i) ==
    IF \E j \in DOMAIN delivered : j # i /\ delivered[j] # <<>>
    THEN LET j == CHOOSE k \in DOMAIN delivered : k # i /\ delivered[k] # <<>>
         IN  delivered[j][1].paths
    ELSE <<>>

\* MapperGetSubTreePathsResponse associatedSubtreePaths; (a fresh local of
\* the handler run for invocation i)
associatedSubtreePathsLocal(i) == <<>>

\* An empty subtree reported as "no such file or directory" (ENOENT, 2).
subtreeShortCircuitResultAsError(ec, local) ==
    [ec |-> IF ec = 0 THEN 2 ELSE ec, paths |-> local]

\* callback(ec, associatedSubtreePaths); in the short-circuit branch
subtreeShortCircuitResult(ec, local) == [ec |-> ec, paths |-> local]

\* The set built from endpoints.begin() + 1.
endpointSetSkipFirst(eps) == Range(Tail(eps))

\* std::set<std::string> endpointSet(endpoints.begin(), endpoints.end());
endpointSet(eps) == Range(eps)

RECURSIVE collectAssociatedOnce(_, _, _)
\* The loop that skips a path it has already put into the result.
collectAssociatedOnce(acc, subtreePaths, epSet) ==
    IF subtreePaths = <<>> THEN acc
    ELSE collectAssociatedOnce(
             IF Head(subtreePaths) \in epSet /\ Head(subtreePaths) \notin Range(acc)
             THEN Append(acc, Head(subtreePaths)) ELSE acc,
             Tail(subtreePaths), epSet)

RECURSIVE collectAssociated(_, _, _)
\* for (objectPath : subtreePaths) if (endpointSet.find(objectPath) != end)
\*     associatedSubtreePaths.emplace_back(objectPath);
collectAssociated(acc, subtreePaths, epSet) ==
    IF subtreePaths = <<>> THEN acc
    ELSE collectAssociated(
             IF Head(subtreePaths) \in epSet THEN Append(acc, Head(subtreePaths)) ELSE acc,
             Tail(subtreePaths), epSet)

\* The result left in the order GetSubTreePaths gave.
sortSkipped(s) == s

\* std::sort(associatedSubtreePaths.begin(), associatedSubtreePaths.end());
sortAssociated(s) == SortStrings(s)

\* The endpoints kept in one place shared by every invocation.
capturedEndpointsShared(i) == endpoints[1]

\* The endpoints that the handler of invocation i sees: its own by-value capture.
capturedEndpoints(i) == endpoints[i]

\* The handler without the return of line 203: it goes on to merge and calls
\* back a second time.
validateCallbacksNoReturn(i, ec, subtreePaths) ==
    LET local == associatedSubtreePathsLocal(i)
        merged == [ec |-> ec,
                   paths |-> sortAssociated(
                       collectAssociated(local, subtreePaths,
                                         endpointSet(capturedEndpoints(i))))]
    IN  IF subtreeShortCircuit(ec, subtreePaths)
        THEN <<subtreeShortCircuitResult(ec, local), merged>>
        ELSE <<merged>>

\* The handler that forgets the callback in its short-circuit branch.
validateCallbacksForgetful(i, ec, subtreePaths) ==
    LET local == associatedSubtreePathsLocal(i)
    IN  IF subtreeShortCircuit(ec, subtreePaths)
        THEN <<>>
        ELSE <<[ec |-> ec,
                paths |-> sortAssociated(
                    collectAssociated(local, subtreePaths,
                                      endpointSet(capturedEndpoints(i))))]>>

\* The handler keeping quiet once the caller has asked to cancel.
validateCallbacksUnlessCancelled(i, ec, subtreePaths) ==
    IF \E k \in 1..Len(trace[i]) : trace[i][k] = "Cancel"
    THEN <<>>
    ELSE LET local == associatedSubtreePathsLocal(i)
         IN  IF subtreeShortCircuit(ec, subtreePaths)
             THEN <<subtreeShortCircuitResult(ec, local)>>
             ELSE <<[ec |-> ec,
                     paths |-> sortAssociated(
                         collectAssociated(local, subtreePaths,
                                           endpointSet(capturedEndpoints(i))))]>>

\* The callback invocations made by one run of the GetSubTreePaths handler
\* (lines 195-221), in order.
validateCallbacks(i, ec, subtreePaths) ==
    LET local == associatedSubtreePathsLocal(i)
    IN  IF subtreeShortCircuit(ec, subtreePaths)
        THEN <<subtreeShortCircuitResult(ec, local)>>
        ELSE <<[ec |-> ec,
                paths |-> sortAssociated(
                    collectAssociated(local, subtreePaths,
                                      endpointSet(capturedEndpoints(i))))]>>

\* The endpoints read issued twice.
invokeCallsTwice(a) ==
    <<getAssociationEndPointsCall(a.associatedPath),
      getAssociationEndPointsCall(a.associatedPath)>>

\* Both remote calls issued at once (the concurrent variant).
invokeCallsConcurrent(a) ==
    <<getAssociationEndPointsCall(a.associatedPath),
      getSubTreePathsCall(a.path, a.depth, a.interfaces)>>

\* The remote calls issued by getAssociatedSubTreePaths before it returns.
invokeCalls(a) == <<getAssociationEndPointsCall(a.associatedPath)>>

NoArgs == [associatedPath |-> <<>>, path |-> <<>>, depth |-> 0, interfaces |-> <<>>]

Issue(i, calls) == {[owner |-> i, call |-> calls[k]] : k \in 1..Len(calls)}

RequestEvents(calls) ==
    [k \in 1..Len(calls) |->
        IF calls[k].member = "endpoints" THEN "EndpointsRequest" ELSE "SubTreePathsRequest"]

CallbackEvents(cbs) == [k \in 1..Len(cbs) |-> "Callback"]

\* getAssociatedSubTreePaths(associatedPath, path, depth, interfaces, callback)
getAssociatedSubTreePaths(i, a) ==
    /\ trace[i] = <<>>
    /\ LET calls == invokeCalls(a)
       IN  /\ captured' = [captured EXCEPT ![i] = a]
           /\ systemBus' = systemBus \cup Issue(i, calls)
           /\ sent' = [sent EXCEPT ![i] = @ \o calls]
           /\ trace' = [trace EXCEPT ![i] = @ \o RequestEvents(calls)]
    /\ UNCHANGED <<endpoints, got, delivered, pathVars>>

\* The reply to the endpoints property read arrives: the lambda at lines 233-249.
EndpointsReply(i, ec, eps) ==
    \E m \in systemBus :
        /\ m.owner = i
        /\ m.call.member = "endpoints"
        /\ got' = [got EXCEPT ![i] = Append(@, [member |-> "endpoints", ec |-> ec, value |-> eps])]
        /\ IF endpointsShortCircuit(ec, eps)
           THEN /\ delivered' = [delivered EXCEPT ![i] = Append(@, endpointsShortCircuitResult(ec))]
                /\ trace' = [trace EXCEPT ![i] = @ \o <<"EndpointsReply", "Callback">>]
                /\ systemBus' = systemBus \ {m}
                /\ UNCHANGED <<endpoints, sent>>
           ELSE LET c == getSubTreePathsCall(captured[i].path, captured[i].depth,
                                             captured[i].interfaces)
                IN  /\ endpoints' = [endpoints EXCEPT ![i] = eps]
                    /\ systemBus' = (systemBus \ {m}) \cup Issue(i, <<c>>)
                    /\ sent' = [sent EXCEPT ![i] = Append(@, c)]
                    /\ trace' = [trace EXCEPT ![i] = @ \o <<"EndpointsReply", "SubTreePathsRequest">>]
                    /\ UNCHANGED delivered
        /\ UNCHANGED <<captured, pathVars>>

\* The reply to GetSubTreePaths arrives: the lambda at lines 195-221, whose
\* callback is the forwarding lambda at lines 246-248.
SubTreePathsReply(i, ec, subtreePaths) ==
    \E m \in systemBus :
        /\ m.owner = i
        /\ m.call.member = "GetSubTreePaths"
        /\ LET cbs == validateCallbacks(i, ec, subtreePaths)
           IN  /\ delivered' = [delivered EXCEPT ![i] = @ \o cbs]
               /\ trace' = [trace EXCEPT ![i] = @ \o <<"SubTreePathsReply">> \o CallbackEvents(cbs)]
        /\ got' = [got EXCEPT ![i] = Append(@, [member |-> "GetSubTreePaths", ec |-> ec,
                                                  value |-> subtreePaths])]
        /\ systemBus' = systemBus \ {m}
        /\ UNCHANGED <<captured, endpoints, sent, pathVars>>

(***************************************************************************)
(* The gateway operations called directly (lines 112-177): the callback    *)
(* given to them is the caller's own.                                      *)
(***************************************************************************)
\* The test without its error half: callback(objectNames.size() != 0).
checkDbusPathExistsResultSizeOnly(ec, objectNames) == [value |-> objectNames # <<>>]

\* callback(!ec && objectNames.size() != 0);
checkDbusPathExistsResult(ec, objectNames) == [value |-> ec = 0 /\ objectNames # <<>>]

\* callback(ec, subtree);
getSubTreeResult(ec, subtree) == [ec |-> ec, value |-> subtree]

\* A failure handed on as success with nothing found.
getSubTreePathsResultSwallowed(ec, subtreePaths) ==
    [ec |-> 0, value |-> IF ec = 0 THEN subtreePaths ELSE <<>>]

\* callback(ec, subtreePaths);
getSubTreePathsResult(ec, subtreePaths) == [ec |-> ec, value |-> subtreePaths]

\* callback(ec, endpoints);
getAssociationEndPointsResult(ec, eps) == [ec |-> ec, value |-> eps]

\* One remote call is issued for the direct call i of a gateway operation.
GatewayIssue(i, a, c, event) ==
    /\ trace[i] = <<>>
    /\ captured' = [captured EXCEPT ![i] = a]
    /\ systemBus' = systemBus \cup Issue(i, <<c>>)
    /\ sent' = [sent EXCEPT ![i] = Append(@, c)]
    /\ trace' = [trace EXCEPT ![i] = Append(@, event)]
    /\ UNCHANGED <<endpoints, got, delivered, pathVars>>

\* The reply to the remote call of the direct call i runs the operation's
\* lambda, which calls the caller's callback with cb.
GatewayReply(i, member, ec, value, cb) ==
    \E m \in systemBus :
        /\ m.owner = i
        /\ m.call.member = member
        /\ got' = [got EXCEPT ![i] = Append(@, [member |-> member, ec |-> ec, value |-> value])]
        /\ delivered' = [delivered EXCEPT ![i] = Append(@, cb)]
        /\ trace' = [trace EXCEPT ![i] = @ \o <<"Reply", "Callback">>]
        /\ systemBus' = systemBus \ {m}
        /\ UNCHANGED <<captured, endpoints, sent, pathVars>>

\* checkDbusPathExists(path, callback)
checkDbusPathExists(i, p) ==
    GatewayIssue(i, [NoArgs EXCEPT !.path = p], getObjectCall(p), "GetObjectRequest")

GetObjectReply(i, ec, objectNames) ==
    GatewayReply(i, "GetObject", ec, objectNames, checkDbusPathExistsResult(ec, objectNames))

\* getSubTree(path, depth, interfaces, callback)
getSubTree(i, a) ==
    GatewayIssue(i, a, getSubTreeCall(a.path, a.depth, a.interfaces), "GetSubTreeRequest")

GetSubTreeReply(i, ec, subtree) ==
    GatewayReply(i, "GetSubTree", ec, subtree, getSubTreeResult(ec, subtree))

\* getSubTreePaths(path, depth, interfaces, callback)
getSubTreePaths(i, a) ==
    GatewayIssue(i, a, getSubTreePathsCall(a.path, a.depth, a.interfaces),
                 "SubTreePathsRequest")

GetSubTreePathsReply(i, ec, subtreePaths) ==
    GatewayReply(i, "GetSubTreePaths", ec, subtreePaths,
                 getSubTreePathsResult(ec, subtreePaths))

\* getAssociationEndPoints(path, callback)
getAssociationEndPoints(i, p) ==
    GatewayIssue(i, [NoArgs EXCEPT !.associatedPath = p], getAssociationEndPointsCall(p),
                 "EndpointsRequest")

GetAssociationEndPointsReply(i, ec, eps) ==
    GatewayReply(i, "endpoints", ec, eps, getAssociationEndPointsResult(ec, eps))

\* The caller of invocation i wants to cancel it. getAssociatedSubTreePaths
\* takes no cancellation signal, returns void and hands out no handle (lines
\* 225-230), so the wish reaches no code: only the trace records it.
CancelRequest(i) ==
    /\ trace[i] # <<>>
    /\ delivered[i] = <<>>
    /\ \A k \in 1..Len(trace[i]) : trace[i][k] # "Cancel"
    /\ trace' = [trace EXCEPT ![i] = Append(@, "Cancel")]
    /\ UNCHANGED <<systemBus, captured, endpoints, sent, got, delivered, pathVars>>

\* escapePathForDbus(path) is called and returns.
EscapePath ==
    /\ ~escaped
    /\ path' = escapePathForDbus(path)
    /\ escaped' = TRUE
    /\ UNCHANGED <<pathIn, index, result, returned, resolverVars>>

\* getNthStringFromPath(path, index, result) is called and returns.
GetNthString ==
    /\ returned = "pending"
    /\ LET r == getNthStringFromPath(pathIn, index, result)
       IN  /\ result' = r.result
           /\ returned' = IF r.ret THEN "true" ELSE "false"
    /\ UNCHANGED <<path, pathIn, escaped, index, resolverVars>>

(***************************************************************************)
(* Inputs.                                                                 *)
(***************************************************************************)
\* boost::system::error_code values: 0 is success; 5 (EIO) and 110 (ETIMEDOUT)
\* stand for the failures a call can end with.
ErrorCodes == {0, 5, 110}
ConcErrorCodes == {0, 5}

Paths == {fan0, fan1, psu0}

\* "xyz.openbmc_project.Inventory.Item.Fan" stands for a non-empty filter.
Args ==
    {[associatedPath |-> allFans, path |-> r, depth |-> d, interfaces |-> f] :
        r \in {invRoot, allFans}, d \in {0, 2}, f \in {<<>>, <<"xyz.openbmc_project.Inventory.Item.Fan">>}}
ConcArgs ==
    {[associatedPath |-> allFans, path |-> invRoot, depth |-> d, interfaces |-> <<>>] :
        d \in {0, 2}}

Payloads == SeqsUpTo(Paths, MaxReplyLen)
\* The payloads tried when several invocations run: empty, one path, and two
\* paths out of order.
ConcPayloads == {<<>>, <<fan0>>, <<fan1>>, <<fan1, fan0>>}

\* ' ' '!' '.' '/' '0' '9' ':' 'A' 'Z' '[' '_' '`' 'a' 'z' '{'
EscapeAlphabet == {32, 33, 46, 47, 48, 57, 58, 65, 90, 91, 95, 96, 97, 122, 123}
\* "a/b c!d"
EscapeExample == <<97, 47, 98, 32, 99, 33, 100>>
EscapeInputs == SeqsUpTo(EscapeAlphabet, MaxStrLen) \cup {EscapeExample}

(***************************************************************************)
(* Specifications.                                                         *)
(***************************************************************************)
InitResolver(I) ==
    /\ systemBus = {}
    /\ captured = [i \in I |-> NoArgs]
    /\ endpoints = [i \in I |-> <<>>]
    /\ sent = [i \in I |-> <<>>]
    /\ got = [i \in I |-> <<>>]
    /\ delivered = [i \in I |-> <<>>]
    /\ trace = [i \in I |-> <<>>]

InitNoPath ==
    /\ path = <<>>
    /\ pathIn = <<>>
    /\ escaped = FALSE
    /\ index = 0
    /\ result = <<>>
    /\ returned = "pending"

\* One invocation, every reply.
Init == InitResolver({1}) /\ InitNoPath

Next ==
    \/ \E a \in Args : getAssociatedSubTreePaths(1, a)
    \/ \E ec \in ErrorCodes, eps \in Payloads : EndpointsReply(1, ec, eps)
    \/ \E ec \in ErrorCodes, sp \in Payloads : SubTreePathsReply(1, ec, sp)

Spec == Init /\ [][Next]_vars

\* Several invocations over the one bus, replies in any interleaving.
Invocations == 1..NumInvocations

InitConc == InitResolver(Invocations) /\ InitNoPath

NextConc ==
    \/ \E i \in Invocations, a \in ConcArgs : getAssociatedSubTreePaths(i, a)
    \/ \E i \in Invocations, ec \in ConcErrorCodes, eps \in ConcPayloads :
           EndpointsReply(i, ec, eps)
    \/ \E i \in Invocations, ec \in ConcErrorCodes, sp \in ConcPayloads :
           SubTreePathsReply(i, ec, sp)

SpecConc == InitConc /\ [][NextConc]_vars

\* The gateway operations called directly, NumGatewayCalls calls in flight at
\* once, next to one invocation of getAssociatedSubTreePaths (caller 0).
GatewayCallers == 1..NumGatewayCalls
ResolverCaller == 0

\* "xyz.openbmc_project.Inventory.Manager" hosts the object.
GetObjectPayloads ==
    {<<>>,
     <<(<<"xyz.openbmc_project.Inventory.Manager",
          <<"xyz.openbmc_project.Inventory.Item.Fan">>>>)>>}
GetSubTreePayloads ==
    {<<>>,
     <<(<<fan0, <<(<<"xyz.openbmc_project.Inventory.Manager",
                     <<"xyz.openbmc_project.Inventory.Item.Fan">>>>)>>>>)>>}
GatewayPathPayloads == {<<>>, <<fan1, fan0>>}
\* The search root may be the association object itself.
GatewayArgs ==
    {[associatedPath |-> <<>>, path |-> allFans, depth |-> 2,
      interfaces |-> <<"xyz.openbmc_project.Inventory.Item.Fan">>]}
GatewayResolverArgs ==
    {[associatedPath |-> allFans, path |-> allFans, depth |-> 0, interfaces |-> <<>>]}

InitGateway == InitResolver(GatewayCallers \cup {ResolverCaller}) /\ InitNoPath

NextGateway ==
    \/ \E i \in GatewayCallers : checkDbusPathExists(i, fan0)
    \/ \E i \in GatewayCallers, ec \in ConcErrorCodes, v \in GetObjectPayloads :
           GetObjectReply(i, ec, v)
    \/ \E i \in GatewayCallers, a \in GatewayArgs : getSubTree(i, a)
    \/ \E i \in GatewayCallers, ec \in ConcErrorCodes, v \in GetSubTreePayloads :
           GetSubTreeReply(i, ec, v)
    \/ \E i \in GatewayCallers, a \in GatewayArgs : getSubTreePaths(i, a)
    \/ \E i \in GatewayCallers, ec \in ConcErrorCodes, v \in GatewayPathPayloads :
           GetSubTreePathsReply(i, ec, v)
    \/ \E i \in GatewayCallers : getAssociationEndPoints(i, allFans)
    \/ \E i \in GatewayCallers, ec \in ConcErrorCodes, v \in GatewayPathPayloads :
           GetAssociationEndPointsReply(i, ec, v)
    \/ \E a \in GatewayResolverArgs : getAssociatedSubTreePaths(ResolverCaller, a)
    \/ \E ec \in ConcErrorCodes, v \in GatewayPathPayloads :
           EndpointsReply(ResolverCaller, ec, v)
    \/ \E ec \in ConcErrorCodes, v \in GatewayPathPayloads :
           SubTreePathsReply(ResolverCaller, ec, v)

SpecGateway == InitGateway /\ [][NextGateway]_vars

\* One invocation whose caller may ask to cancel it while a call is pending.
NextCancel ==
    \/ \E a \in Args : getAssociatedSubTreePaths(1, a)
    \/ \E ec \in ErrorCodes, eps \in ConcPayloads : EndpointsReply(1, ec, eps)
    \/ \E ec \in ErrorCodes, sp \in ConcPayloads : SubTreePathsReply(1, ec, sp)
    \/ CancelRequest(1)

SpecCancel == Init /\ [][NextCancel]_vars

\* The same, on a transport that answers every call it was handed: a reply
\* step that stays possible is eventually taken.
SpecLive ==
    /\ SpecCancel
    /\ WF_vars(\E ec \in ErrorCodes, eps \in ConcPayloads : EndpointsReply(1, ec, eps))
    /\ WF_vars(\E ec \in ErrorCodes, sp \in ConcPayloads : SubTreePathsReply(1, ec, sp))

\* The path utilities, each input string.
InitPath ==
    /\ InitResolver({1})
    /\ pathIn \in EscapeInputs
    /\ path = pathIn
    /\ escaped = FALSE
    /\ index = 0
    /\ result = <<>>
    /\ returned = "pending"

NextPath == EscapePath

SpecPath == InitPath /\ [][NextPath]_vars

\* '.' '/' 'a' 'b'
NthAlphabet == {46, 47, 97, 98}
\* "/xyz/openbmc_project/state/host0"
NthExample == <<47, 120, 121, 122, 47, 111, 112, 101, 110, 98, 109, 99, 95, 112,
                114, 111, 106, 101, 99, 116, 47, 115, 116, 97, 116, 101, 47, 104,
                111, 115, 116, 48>>
NthInputs == SeqsUpTo(NthAlphabet, MaxPathLen) \cup {NthExample}
NthIndexes == {-1, 0, 1, 2, 3, 9}
\* "#": what the caller's result string holds before the call
NthUntouched == <<35>>

\* getNthStringFromPath on each path and index.
InitNth ==
    /\ InitResolver({1})
    /\ pathIn \in NthInputs
    /\ path = pathIn
    /\ escaped = FALSE
    /\ index \in NthIndexes
    /\ result = NthUntouched
    /\ returned = "pending"

NextNth == GetNthString

SpecNth == InitNth /\ [][NextNth]_vars

(***************************************************************************)
(* Properties.                                                             *)
(***************************************************************************)
IsEndpointsMember(r) == r.member = "endpoints"
IsSubTreePathsMember(r) == r.member = "GetSubTreePaths"

EndpointsReplies(i) == SelectSeq(got[i], IsEndpointsMember)
SubTreePathsReplies(i) == SelectSeq(got[i], IsSubTreePathsMember)
SubTreePathsRequests(i) == SelectSeq(sent[i], IsSubTreePathsMember)

Ascending(s) == \A k \in 1..(Len(s) - 1) : ~StrLess(s[k + 1], s[k])
StrictlyAscending(s) == \A k \in 1..(Len(s) - 1) : StrLess(s[k], s[k + 1])
NoRepeats(s) == \A j, k \in 1..Len(s) : s[j] = s[k] => j = k
InSomeReply(replies, x) == \E k \in 1..Len(replies) : x \in Range(replies[k].value)

FromBothReplies(i, s) ==
    \A x \in Range(s) :
        /\ InSomeReply(EndpointsReplies(i), x)
        /\ InSomeReply(SubTreePathsReplies(i), x)

\* C1 as stated: whatever the two replies are, repeated elements included,
\* the delivered sequence is strictly ascending without duplicates, and every
\* element of it is in the GetSubTreePaths reply and in the endpoints reply.
C1Original ==
    \A i \in DOMAIN delivered : \A k \in 1..Len(delivered[i]) :
        /\ StrictlyAscending(delivered[i][k].paths)
        /\ FromBothReplies(i, delivered[i][k].paths)

\* C1 amended: the delivered sequence is ascending (no element is less than
\* the one before it), it is strictly ascending without duplicates whenever
\* the GetSubTreePaths reply has no repeated element, and every element of
\* it is in the GetSubTreePaths reply and in the endpoints reply.
C1Theorem ==
    \A i \in DOMAIN delivered : \A k \in 1..Len(delivered[i]) :
        /\ Ascending(delivered[i][k].paths)
        /\ FromBothReplies(i, delivered[i][k].paths)
        /\ (\A j \in 1..Len(SubTreePathsReplies(i)) :
                NoRepeats(SubTreePathsReplies(i)[j].value))
           => StrictlyAscending(delivered[i][k].paths)

\* A merge of three paths that GetSubTreePaths gave out of order.
C1Witness ==
    /\ Len(got[1]) = 2
    /\ ~Ascending(got[1][2].value)
    /\ Len(delivered[1]) = 1
    /\ Len(delivered[1][1].paths) = 3
    /\ StrictlyAscending(delivered[1][1].paths)

\* C2: with a successful non-empty endpoints reply and a successful
\* non-empty GetSubTreePaths reply, the callback gets success and exactly the
\* subtree paths that are endpoints (a path is delivered if and only if it is
\* in both replies); endpoints {fan0, fan1} and subtree [fan0, psu0] give [fan0].
C2Theorem ==
    \A i \in DOMAIN delivered :
        (/\ Len(EndpointsReplies(i)) = 1
         /\ Len(SubTreePathsReplies(i)) = 1
         /\ EndpointsReplies(i)[1].ec = 0
         /\ EndpointsReplies(i)[1].value # <<>>
         /\ SubTreePathsReplies(i)[1].ec = 0
         /\ SubTreePathsReplies(i)[1].value # <<>>)
        => /\ Len(delivered[i]) = 1
           /\ delivered[i][1].ec = 0
           /\ Range(delivered[i][1].paths) =
                  Range(SubTreePathsReplies(i)[1].value) \cap Range(EndpointsReplies(i)[1].value)
           /\ (/\ Range(EndpointsReplies(i)[1].value) = {fan0, fan1}
               /\ SubTreePathsReplies(i)[1].value = <<fan0, psu0>>)
              => delivered[i][1].paths = <<fan0>>

\* The documented example has run to its delivery.
C2Witness ==
    /\ Len(got[1]) = 2
    /\ got[1][1] = [member |-> "endpoints", ec |-> 0, value |-> <<fan0, fan1>>]
    /\ got[1][2] = [member |-> "GetSubTreePaths", ec |-> 0, value |-> <<fan0, psu0>>]
    /\ delivered[1] = <<[ec |-> 0, paths |-> <<fan0>>]>>

\* C3: after a successful endpoints reply with no endpoint, the callback has
\* got (success, empty) and the invocation has issued no GetSubTreePaths call.
C3Theorem ==
    \A i \in DOMAIN delivered :
        (\E k \in 1..Len(got[i]) :
            got[i][k] = [member |-> "endpoints", ec |-> 0, value |-> <<>>])
        => /\ delivered[i] = <<[ec |-> 0, paths |-> <<>>]>>
           /\ SubTreePathsRequests(i) = <<>>
           /\ \A m \in systemBus : m.owner # i

\* The endpoints read has answered success with no endpoint.
C3Witness ==
    /\ got[1] = <<[member |-> "endpoints", ec |-> 0, value |-> <<>>]>>
    /\ delivered[1] = <<[ec |-> 0, paths |-> <<>>]>>

\* C4: when a stage fails, the callback gets that reply's error code and an
\* empty sequence, whatever payload the failing reply carries; when the
\* failing stage is the endpoints read, no GetSubTreePaths call is issued.
C4Theorem ==
    \A i \in DOMAIN delivered :
        /\ \A k \in 1..Len(EndpointsReplies(i)) :
               EndpointsReplies(i)[k].ec # 0
               => /\ delivered[i] = <<[ec |-> EndpointsReplies(i)[k].ec, paths |-> <<>>]>>
                  /\ SubTreePathsRequests(i) = <<>>
        /\ \A k \in 1..Len(SubTreePathsReplies(i)) :
               SubTreePathsReplies(i)[k].ec # 0
               => delivered[i] = <<[ec |-> SubTreePathsReplies(i)[k].ec, paths |-> <<>>]>>

\* GetSubTreePaths has failed with a payload that names an endpoint.
C4Witness ==
    /\ Len(got[1]) = 2
    /\ got[1][1].ec = 0
    /\ got[1][2].ec = 110
    /\ Range(got[1][2].value) \cap Range(got[1][1].value) # {}
    /\ delivered[1] = <<[ec |-> 110, paths |-> <<>>]>>

\* C5: after a successful non-empty endpoints reply and a successful empty
\* GetSubTreePaths reply, the callback has got (success, empty).
C5Theorem ==
    \A i \in DOMAIN delivered :
        (/\ Len(got[i]) = 2
         /\ got[i][1].member = "endpoints"
         /\ got[i][1].ec = 0
         /\ got[i][1].value # <<>>
         /\ got[i][2] = [member |-> "GetSubTreePaths", ec |-> 0, value |-> <<>>])
        => delivered[i] = <<[ec |-> 0, paths |-> <<>>]>>

\* GetSubTreePaths has answered success with no path.
C5Witness ==
    /\ Len(got[1]) = 2
    /\ got[1][1].ec = 0
    /\ got[1][1].value # <<>>
    /\ got[1][2] = [member |-> "GetSubTreePaths", ec |-> 0, value |-> <<>>]
    /\ delivered[1] = <<[ec |-> 0, paths |-> <<>>]>>

IsPrefix(s, t) == Len(s) <= Len(t) /\ \A k \in 1..Len(s) : s[k] = t[k]

ShortCircuitOrder == <<"EndpointsRequest", "EndpointsReply", "Callback">>
FullOrder ==
    <<"EndpointsRequest", "EndpointsReply", "SubTreePathsRequest",
      "SubTreePathsReply", "Callback">>

\* C6: the events of an invocation come in the order endpoints request,
\* endpoints reply, then (if at all) GetSubTreePaths request, GetSubTreePaths
\* reply, then delivery; a GetSubTreePaths call is outstanding or issued only
\* once the endpoints reply has been observed.
C6Theorem ==
    /\ \A i \in DOMAIN trace :
           /\ IsPrefix(trace[i], ShortCircuitOrder) \/ IsPrefix(trace[i], FullOrder)
           /\ SubTreePathsRequests(i) # <<>> => EndpointsReplies(i) # <<>>
    /\ \A m \in systemBus :
           m.call.member = "GetSubTreePaths" => EndpointsReplies(m.owner) # <<>>

\* An invocation has gone through both stages to its delivery.
C6Witness == trace[1] = FullOrder

\* C7: an invocation never calls back twice, and once every call it issued
\* has been answered it has called back exactly once.
C7Theorem ==
    \A i \in DOMAIN delivered :
        /\ Len(delivered[i]) <= 1
        /\ (trace[i] # <<>> /\ \A m \in systemBus : m.owner # i) => Len(delivered[i]) = 1

\* The GetSubTreePaths handler has short-circuited and called back once.
C7Witness ==
    /\ Len(got[1]) = 2
    /\ got[1][2].value = <<>>
    /\ Len(delivered[1]) = 1
    /\ systemBus = {}

ReplyShortCircuits(r) == r.ec # 0 \/ r.value = <<>>

IsEndpointOf(eps, x) == \E k \in 1..Len(eps) : eps[k] = x

RECURSIVE KeepEndpoints(_, _)
KeepEndpoints(s, eps) ==
    IF s = <<>> THEN <<>>
    ELSE IF IsEndpointOf(eps, Head(s))
         THEN <<Head(s)>> \o KeepEndpoints(Tail(s), eps)
         ELSE KeepEndpoints(Tail(s), eps)

\* What an invocation delivers from the replies g to its own calls when no
\* other invocation exists.
AloneResult(g) ==
    IF g = <<>> THEN <<>>
    ELSE IF ReplyShortCircuits(g[1]) THEN <<[ec |-> g[1].ec, paths |-> <<>>]>>
    ELSE IF Len(g) = 1 THEN <<>>
    ELSE IF ReplyShortCircuits(g[2]) THEN <<[ec |-> g[2].ec, paths |-> <<>>]>>
    ELSE <<[ec |-> g[2].ec, paths |-> SortStrings(KeepEndpoints(g[2].value, g[1].value))]>>

\* C8: with several invocations in flight over the one bus and replies in
\* any interleaving, each invocation delivers what it would deliver alone from
\* the replies to its own two calls, and its calls carry its own arguments.
C8Theorem ==
    \A i \in DOMAIN delivered :
        /\ delivered[i] = AloneResult(got[i])
        /\ \A k \in 1..Len(sent[i]) :
               \/ sent[i][k] = getAssociationEndPointsCall(captured[i].associatedPath)
               \/ sent[i][k] = getSubTreePathsCall(captured[i].path, captured[i].depth,
                                                   captured[i].interfaces)

\* Invocation 1 has delivered a merge while invocation 2, holding other
\* endpoints and another depth, still has its GetSubTreePaths call outstanding.
C8Witness ==
    /\ DOMAIN delivered = Invocations
    /\ delivered[1] = <<[ec |-> 0, paths |-> <<fan0, fan1>>]>>
    /\ endpoints[2] = <<fan1>>
    /\ endpoints[1] # endpoints[2]
    /\ captured[1] # captured[2]
    /\ \E m \in systemBus : m.owner = 2 /\ m.call.member = "GetSubTreePaths"

\* C9: two invocations with the same arguments that got the same endpoints
\* reply and the same GetSubTreePaths reply have delivered the same status and
\* the same sequence, whichever ran first.
C9Theorem ==
    \A i, j \in DOMAIN delivered :
        (/\ captured[i] = captured[j]
         /\ got[i] = got[j]
         /\ trace[i] # <<>>
         /\ trace[j] # <<>>)
        => delivered[i] = delivered[j]

\* The same call has run twice against the same replies and merged both times.
C9Witness ==
    /\ DOMAIN delivered = Invocations
    /\ captured[1] = captured[2]
    /\ got[1] = got[2]
    /\ Len(got[1]) = 2
    /\ delivered[1] = <<[ec |-> 0, paths |-> <<fan0, fan1>>]>>
    /\ delivered[2] = delivered[1]

C10Allowed == (65..90) \cup (97..122) \cup (48..57) \cup {95, 47}

\* C10: escapePathForDbus leaves a string of the same length in which every
\* character outside [A-Za-z0-9_/] has become '_' and every other character
\* is unchanged at its position; "a/b c!d" becomes "a/b_c_d".
C10Theorem ==
    escaped =>
        /\ Len(path) = Len(pathIn)
        /\ \A k \in 1..Len(pathIn) :
               path[k] = IF pathIn[k] \in C10Allowed THEN pathIn[k] ELSE 95
        /\ pathIn = EscapeExample => path = <<97, 47, 98, 95, 99, 95, 100>>

\* "a/b c!d" has been escaped.
C10Witness ==
    /\ escaped
    /\ pathIn = EscapeExample
    /\ path = <<97, 47, 98, 95, 99, 95, 100>>

RECURSIVE C11Segments(_, _)
\* The non-empty segments of p in order; cur is the segment being read.
C11Segments(p, cur) ==
    IF p = <<>> THEN (IF cur = <<>> THEN <<>> ELSE <<cur>>)
    ELSE IF Head(p) = 47
         THEN (IF cur = <<>> THEN <<>> ELSE <<cur>>) \o C11Segments(Tail(p), <<>>)
         ELSE C11Segments(Tail(p), cur \o <<Head(p)>>)

C11Dots(f) == {k \in 1..Len(f) : f[k] = 46}

\* The stem of a file name: the name itself for "." and "..", for a name
\* without '.', and for a name whose only '.' comes first; otherwise the
\* characters before its last '.'.
C11Stem(f) ==
    IF f = <<46>> \/ f = <<46, 46>> \/ C11Dots(f) \subseteq {1} THEN f
    ELSE [k \in 1..((CHOOSE d \in C11Dots(f) : \A e \in C11Dots(f) : e <= d) - 1) |-> f[k]]

\* C11: getNthStringFromPath returns false exactly when index is negative or
\* at least the number of non-empty segments of the path; otherwise it
\* returns true with the stem of the segment at position index from 0.
\* Index 2 of "/xyz/openbmc_project/state/host0" gives "state", index 9 fails.
C11Theorem ==
    returned # "pending" =>
        LET segs == C11Segments(pathIn, <<>>)
        IN  /\ returned = "false" <=> (index < 0 \/ index >= Len(segs))
            /\ returned = "true" => result = C11Stem(segs[index + 1])
            /\ (pathIn = NthExample /\ index = 2)
               => returned = "true" /\ result = <<115, 116, 97, 116, 101>>
            /\ (pathIn = NthExample /\ index = 9) => returned = "false"

\* The second segment of "a/b.a" has been returned without its suffix.
C11Witness ==
    /\ returned = "true"
    /\ pathIn = <<97, 47, 98, 46, 97>>
    /\ index = 1
    /\ result = <<98>>

C12Calls(i) == Len(sent[i]) >= 1 /\ sent[i][1].member = "GetObject"

\* C12: checkDbusPathExists issues one GetObject call, for its path and with
\* an empty interface filter, and calls back once per reply: with true if and
\* only if the reply has no error and at least one entry.
C12Theorem ==
    \A i \in DOMAIN sent :
        C12Calls(i) =>
            /\ Len(sent[i]) = 1
            /\ sent[i][1].args = <<captured[i].path, <<>>>>
            /\ Len(delivered[i]) = Len(got[i])
            /\ Len(got[i]) <= 1
            /\ \A k \in 1..Len(got[i]) :
                   delivered[i][k].value = (got[i][k].ec = 0 /\ Len(got[i][k].value) >= 1)

\* A failed GetObject call that carried an entry has been answered with false.
C12Witness ==
    \E i \in DOMAIN sent :
        /\ C12Calls(i)
        /\ Len(got[i]) = 1
        /\ got[i][1].ec # 0
        /\ got[i][1].value # <<>>
        /\ delivered[i] = <<[value |-> FALSE]>>

C13Members == {"GetSubTree", "GetSubTreePaths", "endpoints"}

\* C13: a direct call of getSubTree, getSubTreePaths or
\* getAssociationEndPoints issues exactly one remote call, calls back only on
\* that call's reply and with exactly its status and value, and issues no
\* further call after the reply, failed or not.
C13Theorem ==
    \A i \in GatewayCallers \cap DOMAIN sent :
        (Len(sent[i]) >= 1 /\ sent[i][1].member \in C13Members) =>
            /\ Len(sent[i]) = 1
            /\ Len(got[i]) <= 1
            /\ Len(delivered[i]) = Len(got[i])
            /\ got[i] = <<>> => \E m \in systemBus : m.owner = i /\ m.call = sent[i][1]
            /\ got[i] # <<>> =>
                   /\ got[i][1].member = sent[i][1].member
                   /\ delivered[i][1] = [ec |-> got[i][1].ec, value |-> got[i][1].value]
                   /\ \A m \in systemBus : m.owner # i

\* Two direct calls of getSubTreePaths have ended differently: one failed
\* with a payload, the other succeeded.
C13Witness ==
    /\ DOMAIN sent = GatewayCallers \cup {ResolverCaller}
    /\ sent[1] = sent[2]
    /\ Len(sent[1]) = 1
    /\ sent[1][1].member = "GetSubTreePaths"
    /\ delivered[1] = <<[ec |-> 5, value |-> <<fan1, fan0>>]>>
    /\ delivered[2] = <<[ec |-> 0, value |-> <<fan1, fan0>>]>>

C15MapperMethods == {"GetObject", "GetSubTree", "GetSubTreePaths"}

\* C15: every endpoints read, direct or as first stage of
\* getAssociatedSubTreePaths, goes to service xyz.openbmc_project.ObjectMapper
\* at the association's own path, interface xyz.openbmc_project.Association,
\* property endpoints, and not at the mapper's path; every GetObject,
\* GetSubTree and GetSubTreePaths call goes to /xyz/openbmc_project/object_mapper
\* on interface xyz.openbmc_project.ObjectMapper, and not at the association
\* path, even when that path is its search root.
C15Theorem ==
    \A i \in DOMAIN sent : \A k \in 1..Len(sent[i]) :
        LET c == sent[i][k]
        IN  /\ c.service = "xyz.openbmc_project.ObjectMapper"
            /\ c.member = "endpoints" =>
                   /\ c.api = "getProperty"
                   /\ c.interface = "xyz.openbmc_project.Association"
                   /\ c.object = captured[i].associatedPath
                   /\ c.object = allFans
                   /\ c.object # mapperPath
            /\ c.member # "endpoints" =>
                   /\ c.member \in C15MapperMethods
                   /\ c.api = "async_method_call"
                   /\ c.interface = "xyz.openbmc_project.ObjectMapper"
                   /\ c.object = mapperPath
                   /\ c.object # allFans

\* The resolver has issued both of its calls, the second with the
\* association object as search root, and a direct endpoints read is out.
C15Witness ==
    /\ DOMAIN sent = GatewayCallers \cup {ResolverCaller}
    /\ Len(sent[ResolverCaller]) = 2
    /\ sent[ResolverCaller][1].object = allFans
    /\ sent[ResolverCaller][2].object = mapperPath
    /\ sent[ResolverCaller][2].args[1] = allFans
    /\ \E i \in GatewayCallers :
           /\ Len(sent[i]) = 1
           /\ sent[i][1].member = "endpoints"
           /\ sent[i][1].object = allFans

\* C14: the GetSubTreePaths request of the second stage carries exactly the
\* root path, depth and interface filter the caller supplied (depth 0 stays
\* 0, an empty filter stays empty), whatever the endpoints reply held.
C14Theorem ==
    \A i \in DOMAIN sent :
        /\ trace[i] # <<>> => captured[i] \in Args
        /\ \A k \in 1..Len(sent[i]) :
               sent[i][k].member = "GetSubTreePaths" =>
                   /\ Len(sent[i][k].args) = 3
                   /\ sent[i][k].args[1] = captured[i].path
                   /\ sent[i][k].args[2] = captured[i].depth
                   /\ sent[i][k].args[3] = captured[i].interfaces
        /\ \A m \in systemBus :
               (m.owner = i /\ m.call.member = "GetSubTreePaths") =>
                   m.call.args = <<captured[i].path, captured[i].depth, captured[i].interfaces>>

\* A call with depth 0 and an empty filter has issued its second request
\* after an endpoints reply of three paths.
C14Witness ==
    /\ captured[1].depth = 0
    /\ captured[1].interfaces = <<>>
    /\ captured[1].path = invRoot
    /\ Len(got[1]) = 1
    /\ Len(got[1][1].value) = 3
    /\ Len(sent[1]) = 2
    /\ sent[1][2].args = <<invRoot, 0, <<>>>>
    /\ \E m \in systemBus : m.call = sent[1][2]

CancelRequested(i) == \E k \in 1..Len(trace[i]) : trace[i][k] = "Cancel"

\* C16 as stated: once the caller has triggered cancellation before the
\* operation resolved, the pending call is abandoned and the callback has got
\* a cancelled status (ECANCELED, 125) and nothing else, then or later.
C16Original ==
    \A i \in DOMAIN delivered :
        CancelRequested(i) =>
            /\ \A m \in systemBus : m.owner # i
            /\ delivered[i] = <<[ec |-> 125, paths |-> <<>>]>>

\* C16 amended: getAssociatedSubTreePaths takes no cancellation signal. After
\* the caller has wanted to cancel, the pending call stays outstanding until
\* its reply arrives, nothing is delivered before that, and the callback is
\* then invoked once with the status and sequence that the replies determine,
\* never with a cancelled status of its own.
C16Theorem ==
    \A i \in DOMAIN delivered :
        CancelRequested(i) =>
            /\ delivered[i] = AloneResult(got[i])
            /\ delivered[i] = <<>> => \E m \in systemBus : m.owner = i
            /\ (\A m \in systemBus : m.owner # i) =>
                   /\ Len(delivered[i]) = 1
                   /\ delivered[i][1].ec = got[i][Len(got[i])].ec

\* Cancellation was wanted while the endpoints read was pending; both replies
\* came all the same and the merge was delivered.
C16Witness ==
    /\ trace[1] = <<"EndpointsRequest", "Cancel", "EndpointsReply", "SubTreePathsRequest",
                    "SubTreePathsReply", "Callback">>
    /\ delivered[1] = <<[ec |-> 0, paths |-> <<fan0, fan1>>]>>

\* C17: on a transport that eventually answers every call, an invocation
\* eventually calls back; and in no state has an invocation been made, has
\* every call it issued been answered, and has nothing been delivered.
C17Theorem ==
    /\ [](trace[1] # <<>> /\ delivered[1] = <<>> => \E m \in systemBus : m.owner = 1)
    /\ (trace[1] # <<>>) ~> (delivered[1] # <<>>)

\* Both calls have been answered and the callback has run.
C17Witness ==
    /\ Len(got[1]) = 2
    /\ systemBus = {}
    /\ Len(delivered[1]) = 1

C18Count(calls, member) == Cardinality({k \in 1..Len(calls) : calls[k].member = member})
C18Outstanding(i) == {m \in systemBus : m.owner = i}

\* C18: an invocation issues exactly one endpoints read and at most one
\* GetSubTreePaths call, the latter exactly when the endpoints reply is a
\* success with at least one endpoint; it has at most one call outstanding;
\* and once its callback has run or a stage has failed it has no call
\* outstanding and has issued none beyond those already answered.
C18Theorem ==
    \A i \in DOMAIN sent :
        /\ trace[i] = <<>> => sent[i] = <<>> /\ C18Outstanding(i) = {}
        /\ trace[i] # <<>> =>
               /\ C18Count(sent[i], "endpoints") = 1
               /\ C18Count(sent[i], "GetSubTreePaths") <= 1
               /\ Len(sent[i]) = C18Count(sent[i], "endpoints")
                                 + C18Count(sent[i], "GetSubTreePaths")
               /\ C18Count(sent[i], "GetSubTreePaths") = 1
                  <=> (\E k \in 1..Len(got[i]) :
                          /\ got[i][k].member = "endpoints"
                          /\ got[i][k].ec = 0
                          /\ got[i][k].value # <<>>)
               /\ Cardinality(C18Outstanding(i)) <= 1
               /\ Cardinality(C18Outstanding(i)) = Len(sent[i]) - Len(got[i])
               /\ (delivered[i] # <<>> \/ \E k \in 1..Len(got[i]) : got[i][k].ec # 0)
                  => /\ C18Outstanding(i) = {}
                     /\ Len(sent[i]) = Len(got[i])

\* The endpoints read has failed: one call issued, none outstanding.
C18Witness ==
    /\ Len(sent[1]) = 1
    /\ Len(got[1]) = 1
    /\ got[1][1].ec = 5
    /\ got[1][1].value # <<>>
    /\ systemBus = {}
    /\ Len(delivered[1]) = 1

RECURSIVE C19Occurrences(_, _)
C19Occurrences(s, x) ==
    IF s = <<>> THEN 0
    ELSE (IF Head(s) = x THEN 1 ELSE 0) + C19Occurrences(Tail(s), x)

C19Merged(i) ==
    /\ Len(got[i]) = 2
    /\ got[i][1].member = "endpoints"
    /\ got[i][2].member = "GetSubTreePaths"
    /\ got[i][1].ec = 0
    /\ got[i][1].value # <<>>
    /\ got[i][2].ec = 0
    /\ got[i][2].value # <<>>

\* C19: on the merge path the delivered sequence is ascending, holds each
\* path as often as the GetSubTreePaths reply holds it if the path is an
\* endpoint and not at all otherwise, and is no longer than that reply.
C19Theorem ==
    \A i \in DOMAIN delivered :
        C19Merged(i) =>
            /\ Len(delivered[i]) = 1
            /\ Ascending(delivered[i][1].paths)
            /\ Len(delivered[i][1].paths) <= Len(got[i][2].value)
            /\ \A x \in Paths :
                   C19Occurrences(delivered[i][1].paths, x) =
                       IF \E k \in 1..Len(got[i][1].value) : got[i][1].value[k] = x
                       THEN C19Occurrences(got[i][2].value, x)
                       ELSE 0

\* A path that the subtree reply holds twice, around another endpoint, and
\* that the endpoints reply holds twice as well, has been delivered twice.
C19Witness ==
    /\ C19Merged(1)
    /\ got[1][1].value = <<fan1, fan1, fan0>>
    /\ got[1][2].value = <<fan1, fan0, fan1>>
    /\ delivered[1] = <<[ec |-> 0, paths |-> <<fan0, fan1, fan1>>]>>

====
